---- MODULE Spec2Model ----
(***************************************************************************)
(* Sharboretum off-chain backend: the SQLite data layer (./db), the        *)
(* Express request handlers of the server and the Merkle cycle script      *)
(* (server/merkle_cycle.js).                                               *)
(*                                                                         *)
(* Every `await` of a handler is a point where node may run another        *)
(* request, so each SQL statement is one atomic step of a request and the  *)
(* code between two awaits belongs to the step of the statement before it. *)
(***************************************************************************)
EXTENDS Integers, Sequences, FiniteSets, TLC

\* ---------------------------------------------------------------- bounds
MaxReq == 2         \* requests issued in one behaviour
MaxFaults == 1      \* SQL statements the storage layer may reject
MaxDay == 1         \* timestamps range over the UTC days 0..MaxDay
MaxLeaves == 5      \* heartbeat rows in one Merkle batch
MaxLeafVal == 3      \* distinct leaf hashes a batch draws from
MaxSharbors == 1     \* rows of the sharbors table
RandSteps == 8       \* values Math.random() is drawn from
\* clicks on Water buttons in one session of the social panel
MaxClicks == 4

\* ------------------------------------------------------ program constants
DaySecs == 86400
HEARTBEAT_REWARD == 1
SOCIAL_DELTA == 5
DEFAULT_HEALTH == 100
DAILY_BASE_GROWTH == 1
BOOST_MIN == 2
BOOST_MAX == 8

Null == -1          \* SQL NULL in an INTEGER column

\* ----------------------------------------------------------------- inputs
Addrs == {"a", "b"}
SameDay == {0, 10}                                   \* two instants of UTC day 0
Times == SameDay \cup {d * DaySecs : d \in 1..MaxDay}  \* and the first second of later days
Procs == 1..MaxReq
\* senders of social actions: the users, a third party, and a user's address
\* with a leading blank
Senders == Addrs \cup {"c", " a"}
\* request bodies as they arrive: the address may be missing, the timestamp
\* may lie before the epoch
RawAddrs == Addrs \cup {""}
RawTimes == SameDay \cup {-10}

VARIABLES users, heartbeats, social_actions, reqs, faults,
          mk_pc, mk_leaves, mk_root, mk_leaf, mk_proof, mk_verified, mk_perm, mk_root2,
          mk_since, mk_count, mk_out, mk_exit, mk_target,
          sharbors, job_pc, job_rows, job_i, job_new, job_incs, job_users0, job_exit,
          watering, inflight, timers, clicks

store == <<users, heartbeats, social_actions>>
mk == <<mk_pc, mk_leaves, mk_root, mk_leaf, mk_proof, mk_verified, mk_perm, mk_root2,
        mk_since, mk_count, mk_out, mk_exit, mk_target>>
growth == <<sharbors, job_pc, job_rows, job_i, job_new, job_incs, job_users0, job_exit>>
panel == <<watering, inflight, timers, clicks>>
vars == <<store, reqs, faults, mk, growth, panel>>

\* ------------------------------------------------------------- pure parts
\* String(x).trim() on the addresses of the model
Trim(a) == IF a = " a" THEN "a" ELSE a

\* Math.floor(ts / 86400) * 86400
DayStart(ts) == (ts \div DaySecs) * DaySecs

\* the UTC day a timestamp lies in
Day(ts) == ts \div DaySecs

\* Buffer.toString('hex') of a digest, the digest taken as a number:
\* most significant nibble first, at least two digits (one byte)
RECURSIVE HexDigits(_)
HexDigits(n) == IF n < 16 THEN <<n>> ELSE Append(HexDigits(n \div 16), n % 16)

ToHex(n) == LET d == HexDigits(n) IN IF Len(d) % 2 = 1 THEN <<0>> \o d ELSE d

\* Buffer.from(hex, 'hex'): the bytes of a hex string, as a number
RECURSIVE FromHex(_)
FromHex(h) == IF Len(h) = 0 THEN 0
              ELSE FromHex(SubSeq(h, 1, Len(h) - 1)) * 16 + h[Len(h)]

\* index of an address / a timestamp among the inputs (for the digest model)
AddrCode(a) == IF a = "a" THEN 1 ELSE 2
TimeCode(ts) == IF ts < 0 THEN 0
                ELSE 1 + (ts \div DaySecs) * 2 + (IF ts % DaySecs = 0 THEN 0 ELSE 1)

\* mutant: the digest also covers the number of rows logged so far
computeHeartbeatLeafCounted(tonAddress, timestamp) ==
    ToHex((TimeCode(timestamp) * 2 + AddrCode(Trim(tonAddress))) * 16 + Len(heartbeats))

\* SHA-256 of "addr|ts|secret" as hex: collision free, so an injective code of
\* (trimmed address, timestamp); the secret is fixed per deployment
computeHeartbeatLeaf(tonAddress, timestamp) ==
    ToHex(TimeCode(timestamp) * 2 + AddrCode(Trim(tonAddress)))

\* ------------------------------------------------------------------ store
NoUser == [present |-> FALSE, shard_balance |-> 0, health |-> 0, growth_percent |-> 0,
           mutation_score |-> 0, last_heartbeat |-> Null, last_heartbeat_time |-> Null]

\* mutant: the INSERT leaves health to a column default of 0
NewUserNoHealth == [present |-> TRUE, shard_balance |-> 0, health |-> 0,
                    growth_percent |-> 0, mutation_score |-> 0, last_heartbeat |-> Null,
                    last_heartbeat_time |-> Null]

\* the row INSERTed by ensureUser; last_heartbeat_time is the added column
NewUser == [present |-> TRUE, shard_balance |-> 0, health |-> DEFAULT_HEALTH,
            growth_percent |-> 0, mutation_score |-> 0, last_heartbeat |-> Null,
            last_heartbeat_time |-> Null]

\* no row has been read (get() resolves to null)
NoRow == [ton_address |-> ""]

IdleReq == [kind |-> "none", pc |-> "idle", addr |-> "a", sender |-> "a", ts |-> 0,
            status |-> 0, err |-> "none", applied |-> "na", ret |-> Null,
            pre |-> Null, inserted |-> FALSE, updated |-> FALSE, row |-> NoRow,
            prior |-> Null, injob |-> FALSE, seen |-> FALSE, zeroed |-> FALSE]

InitStore ==
    /\ users = [a \in Addrs |-> NoUser]
    /\ heartbeats = <<>>
    /\ social_actions = <<>>

InitReqs ==
    /\ reqs = [p \in Procs |-> IdleReq]
    /\ faults = 0

\* the Merkle cycle script is not running
InitMkOff ==
    /\ mk_pc = "off"
    /\ mk_leaves = <<>>
    /\ mk_root = <<>>
    /\ mk_leaf = 0
    /\ mk_proof = <<>>
    /\ mk_verified = FALSE
    /\ mk_perm = <<>>
    /\ mk_root2 = <<>>
    /\ mk_since = 0
    /\ mk_count = Null
    /\ mk_out = "none"
    /\ mk_exit = Null
    /\ mk_target = <<>>

\* the daily growth job is not running; no sharbor has been minted
InitGrowthOff ==
    /\ sharbors = <<>>
    /\ job_pc = "off"
    /\ job_rows = <<>>
    /\ job_i = 0
    /\ job_new = 0
    /\ job_incs = <<>>
    /\ job_users0 = [a \in Addrs |-> NoUser]
    /\ job_exit = Null

\* the social panel has been mounted: useState({}) and nothing in flight
InitPanel ==
    /\ watering = [f \in Addrs |-> "idle"]
    /\ inflight = [f \in Addrs |-> 0]
    /\ timers = [f \in Addrs |-> 0]
    /\ clicks = 0

Init == InitStore /\ InitReqs /\ InitMkOff /\ InitGrowthOff /\ InitPanel

\* --------------------------------------------------------------- requests
\* the daily growth job is between its start and its exit
JobRunning == job_pc \notin {"off", "done", "failed"}

InFlight(p) == reqs[p].pc \notin {"idle", "done"}
NoneInFlight == \A q \in Procs : ~InFlight(q)

\* requests take the slots in order: slot p is next when all before it are used
NextSlot(p) == reqs[p].kind = "none" /\ \A q \in Procs : q < p => reqs[q].kind # "none"

\* res.status(code).json(...): the handler is over
Respond(r, code) == [r EXCEPT !.pc = "done", !.status = code]

\* the statement that follows `await ensureUser(...)` in each caller
AfterEnsure(kind) ==
    CASE kind = "heartbeat" -> "hb_insert"
      [] kind = "social" -> "sa_check"
      [] OTHER -> "gs_read"

\* POST /api/heartbeat up to its first await: `if (!ton_address)` answers
\* 400, a timestamp of type number is taken as it is
PostHeartbeat(p, ton_address, timestamp) ==
    /\ NextSlot(p)
    /\ LET r == [IdleReq EXCEPT !.kind = "heartbeat", !.addr = ton_address, !.ts = timestamp]
       IN reqs' = [reqs EXCEPT ![p] = IF ton_address = "" THEN Respond(r, 400)
                                      ELSE [r EXCEPT !.pc = "eu_select"]]
    /\ UNCHANGED <<store, faults, mk, growth, panel>>

\* mutant: the handler lets every pair through
SameAddressNever(sender_address, receiver_address) == FALSE

\* String(sender_address).trim() === String(receiver_address).trim()
SameAddress(sender_address, receiver_address) ==
    Trim(sender_address) = Trim(receiver_address)

\* POST /api/social-action up to its first await; applySocialAction computes ts
\* and dayStart and calls ensureUser(receiver)
PostSocialAction(p, sender_address, receiver_address, timestamp) ==
    /\ NextSlot(p)
    /\ LET r == [IdleReq EXCEPT !.kind = "social", !.addr = receiver_address,
                                !.sender = sender_address, !.ts = timestamp]
       IN reqs' = [reqs EXCEPT ![p] =
                     IF SameAddress(sender_address, receiver_address)
                     THEN Respond(r, 400)
                     ELSE [r EXCEPT !.pc = "eu_select"]]
    /\ UNCHANGED <<store, faults, mk, growth, panel>>

\* GET /api/sharbor-state/:ton_address up to its first await
GetSharborState(p, ton_address) ==
    /\ NextSlot(p)
    /\ reqs' = [reqs EXCEPT ![p] = [IdleReq EXCEPT !.kind = "state", !.pc = "eu_select",
                                                   !.addr = ton_address]]
    /\ UNCHANGED <<store, faults, mk, growth, panel>>

\* ensureUser: SELECT ton_address FROM users WHERE ton_address = ?
EnsureSelect(p) ==
    /\ reqs[p].pc = "eu_select"
    /\ reqs' = [reqs EXCEPT ![p].pc = IF users[reqs[p].addr].present
                                      THEN AfterEnsure(reqs[p].kind) ELSE "eu_insert"]
    /\ UNCHANGED <<store, faults, mk, growth, panel>>

\* ensureUser: INSERT INTO users ...; ton_address is the PRIMARY KEY, so the
\* statement is rejected when the row exists by now
EnsureInsert(p) ==
    /\ reqs[p].pc = "eu_insert"
    /\ IF users[reqs[p].addr].present
       THEN /\ reqs' = [reqs EXCEPT ![p] = [Respond(reqs[p], 500) EXCEPT !.err = "constraint"]]
            /\ UNCHANGED users
       ELSE /\ users' = [users EXCEPT ![reqs[p].addr] = NewUser]
            /\ reqs' = [reqs EXCEPT ![p].pc = AfterEnsure(reqs[p].kind)]
    /\ UNCHANGED <<heartbeats, social_actions, faults, mk, growth, panel>>

\* mutant: the balance is written from the reward, not incremented in SQL
CreditHeartbeatOverwrite(u, reward, timestamp) ==
    IF u.present
    THEN [u EXCEPT !.shard_balance = reward, !.last_heartbeat = timestamp,
                   !.last_heartbeat_time = timestamp]
    ELSE u

\* UPDATE users SET shard_balance = shard_balance + ?, last_heartbeat = ?, last_heartbeat_time = ?
CreditHeartbeat(u, reward, timestamp) ==
    IF u.present
    THEN [u EXCEPT !.shard_balance = @ + reward, !.last_heartbeat = timestamp,
                   !.last_heartbeat_time = timestamp]
    ELSE u

\* mutant: one row per user, replaced by the user's next heartbeat
InsertOrReplaceHeartbeat(rows, row) ==
    Append(SelectSeq(rows, LAMBDA r : r.ton_address # row.ton_address), row)

\* INSERT INTO heartbeats (ton_address, timestamp, leaf_hash) VALUES (?, ?, ?)
InsertHeartbeat(rows, row) == Append(rows, row)

\* updateHeartbeat: INSERT INTO heartbeats
HbInsert(p) ==
    /\ reqs[p].pc = "hb_insert"
    /\ heartbeats' = InsertHeartbeat(heartbeats,
          [ton_address |-> reqs[p].addr, timestamp |-> reqs[p].ts,
           leaf_hash |-> computeHeartbeatLeaf(reqs[p].addr, reqs[p].ts)])
    /\ reqs' = [reqs EXCEPT ![p].pc = "hb_update", ![p].inserted = TRUE,
                            ![p].pre = users[reqs[p].addr].shard_balance]
    /\ UNCHANGED <<users, social_actions, faults, mk, growth, panel>>

\* updateHeartbeat: UPDATE users
HbUpdate(p) ==
    /\ reqs[p].pc = "hb_update"
    /\ users' = [users EXCEPT ![reqs[p].addr] =
                    CreditHeartbeat(@, HEARTBEAT_REWARD, reqs[p].ts)]
    /\ reqs' = [reqs EXCEPT ![p].pc = "hb_read", ![p].updated = TRUE,
                            ![p].prior = users[reqs[p].addr].shard_balance]
    /\ UNCHANGED <<heartbeats, social_actions, faults, mk, growth, panel>>

\* updateHeartbeat: SELECT shard_balance, then the handler's res.json
HbRead(p) ==
    /\ reqs[p].pc = "hb_read"
    /\ reqs' = [reqs EXCEPT ![p] =
          [Respond(reqs[p], 200) EXCEPT
              !.ret = IF users[reqs[p].addr].present
                      THEN users[reqs[p].addr].shard_balance ELSE 0]]
    /\ UNCHANGED <<store, faults, mk, growth, panel>>

\* mutant: the day's first second is left out of the daily-limit check
WateredSinceStrict(receiver, dayStart) ==
    \E i \in 1..Len(social_actions) :
        /\ social_actions[i].receiver = receiver
        /\ social_actions[i].timestamp > dayStart

\* SELECT id FROM social_actions WHERE receiver = ? AND timestamp >= ?
WateredSince(receiver, dayStart) ==
    \E i \in 1..Len(social_actions) :
        /\ social_actions[i].receiver = receiver
        /\ social_actions[i].timestamp >= dayStart

\* mutant: the limit is kept per sender and receiver
DailyLimitPerSender(sender, receiver, dayStart) ==
    \E i \in 1..Len(social_actions) :
        /\ social_actions[i].sender = sender
        /\ social_actions[i].receiver = receiver
        /\ social_actions[i].timestamp >= dayStart

\* applySocialAction(sender, receiver, ...): `existing`, the row the check
\* finds; the statement is given the receiver and the day's start only
DailyLimitHit(sender, receiver, dayStart) == WateredSince(receiver, dayStart)

\* applySocialAction: the daily-limit check
SaCheck(p) ==
    /\ reqs[p].pc = "sa_check"
    /\ reqs' = [reqs EXCEPT ![p].pc =
                  IF DailyLimitHit(reqs[p].sender, reqs[p].addr, DayStart(reqs[p].ts))
                  THEN "sa_noop" ELSE "sa_insert"]
    /\ UNCHANGED <<store, faults, mk, growth, panel>>

\* applySocialAction: the no-op branch reads the score and returns applied:false
SaNoop(p) ==
    /\ reqs[p].pc = "sa_noop"
    /\ reqs' = [reqs EXCEPT ![p] =
          [Respond(reqs[p], 200) EXCEPT
              !.applied = "no",
              !.ret = IF users[reqs[p].addr].present
                      THEN users[reqs[p].addr].mutation_score ELSE 0]]
    /\ UNCHANGED <<store, faults, mk, growth, panel>>

\* applySocialAction: INSERT INTO social_actions
SaInsert(p) ==
    /\ reqs[p].pc = "sa_insert"
    /\ social_actions' = Append(social_actions,
          [sender |-> reqs[p].sender, receiver |-> reqs[p].addr,
           timestamp |-> reqs[p].ts, mutation_delta |-> SOCIAL_DELTA])
    /\ reqs' = [reqs EXCEPT ![p].pc = "sa_update", ![p].inserted = TRUE,
                            ![p].pre = users[reqs[p].addr].mutation_score]
    /\ UNCHANGED <<users, heartbeats, faults, mk, growth, panel>>

\* UPDATE users SET mutation_score = mutation_score + ? WHERE ton_address = ?
BumpScore(u, delta) ==
    IF u.present THEN [u EXCEPT !.mutation_score = @ + delta] ELSE u

\* mutant: the UPDATE has no WHERE clause
AddScoreEverywhere(us, receiver, delta) == [a \in DOMAIN us |-> BumpScore(us[a], delta)]

\* ... WHERE ton_address = ?: the statement touches the receiver's row
AddScoreWhere(us, receiver, delta) == [us EXCEPT ![receiver] = BumpScore(@, delta)]

\* applySocialAction: UPDATE users
SaUpdate(p) ==
    /\ reqs[p].pc = "sa_update"
    /\ users' = AddScoreWhere(users, reqs[p].addr, SOCIAL_DELTA)
    /\ reqs' = [reqs EXCEPT ![p].pc = "sa_read", ![p].updated = TRUE,
                            ![p].injob = JobRunning]
    /\ UNCHANGED <<heartbeats, social_actions, faults, mk, growth, panel>>

\* applySocialAction: SELECT mutation_score and return applied:true
SaRead(p) ==
    /\ reqs[p].pc = "sa_read"
    /\ reqs' = [reqs EXCEPT ![p] =
          [Respond(reqs[p], 200) EXCEPT
              !.applied = "yes",
              !.ret = IF users[reqs[p].addr].present
                      THEN users[reqs[p].addr].mutation_score ELSE 0]]
    /\ UNCHANGED <<store, faults, mk, growth, panel>>

\* the row of SELECT ton_address, shard_balance, health, growth_percent,
\* mutation_score, last_heartbeat FROM users WHERE ton_address = ?
SharborState(ton_address) ==
    IF users[ton_address].present
    THEN [ton_address |-> ton_address,
          shard_balance |-> users[ton_address].shard_balance,
          health |-> users[ton_address].health,
          growth_percent |-> users[ton_address].growth_percent,
          mutation_score |-> users[ton_address].mutation_score,
          last_heartbeat |-> users[ton_address].last_heartbeat]
    ELSE NoRow

\* getSharborState: the SELECT, then res.json(state)
GsRead(p) ==
    /\ reqs[p].pc = "gs_read"
    /\ reqs' = [reqs EXCEPT ![p] =
          [Respond(reqs[p], 200) EXCEPT !.ret = users[reqs[p].addr].shard_balance,
                                        !.row = SharborState(reqs[p].addr)]]
    /\ UNCHANGED <<store, faults, mk, growth, panel>>

\* run/get reject(err): the statement a request is about to execute fails in
\* the storage layer (SQLITE_BUSY, I/O error, full disk) and has no effect;
\* the rejection propagates to the handler's catch, which answers 500
StorageFault(p) ==
    /\ InFlight(p)
    /\ faults < MaxFaults
    /\ faults' = faults + 1
    /\ reqs' = [reqs EXCEPT ![p] = [Respond(reqs[p], 500) EXCEPT !.err = "fault"]]
    /\ UNCHANGED <<store, mk, growth, panel>>

Issue(p) ==
    \/ \E a \in Addrs, t \in Times : PostHeartbeat(p, a, t)
    \/ \E s \in Addrs, r \in Addrs, t \in Times : PostSocialAction(p, s, r, t)
    \/ \E a \in Addrs : GetSharborState(p, a)

Step(p) ==
    \/ EnsureSelect(p)
    \/ EnsureInsert(p)
    \/ HbInsert(p)
    \/ HbUpdate(p)
    \/ HbRead(p)
    \/ SaCheck(p)
    \/ SaNoop(p)
    \/ SaInsert(p)
    \/ SaUpdate(p)
    \/ SaRead(p)
    \/ GsRead(p)
    \/ StorageFault(p)

\* requests are dispatched independently and interleave at every await
Next == \E p \in Procs : Issue(p) \/ Step(p)

Spec == Init /\ [][Next]_vars

\* a caller that awaits each response before it sends the next request
NextSeq == \E p \in Procs : (NoneInFlight /\ Issue(p)) \/ Step(p)

SpecSeq == Init /\ [][NextSeq]_vars

\* social actions only, from a caller that awaits each response
NextSocialSeq ==
    \E p \in Procs :
        \/ NoneInFlight /\ \E s \in Senders, r \in Addrs, t \in Times :
                               PostSocialAction(p, s, r, t)
        \/ EnsureSelect(p)
        \/ EnsureInsert(p)
        \/ SaCheck(p)
        \/ SaNoop(p)
        \/ SaInsert(p)
        \/ SaUpdate(p)
        \/ SaRead(p)
        \/ StorageFault(p)

SpecSocialSeq == Init /\ [][NextSocialSeq]_vars

\* heartbeats as they arrive, from a caller that awaits each response
NextRawHb ==
    \E p \in Procs :
        \/ NoneInFlight /\ \E a \in RawAddrs, t \in RawTimes : PostHeartbeat(p, a, t)
        \/ EnsureSelect(p)
        \/ EnsureInsert(p)
        \/ HbInsert(p)
        \/ HbUpdate(p)
        \/ HbRead(p)
        \/ StorageFault(p)

SpecRawHb == Init /\ [][NextRawHb]_vars

\* heartbeats and social actions of one UTC day, interleaved at every await
NextDay ==
    \E p \in Procs :
        \/ \E a \in Addrs, t \in SameDay : PostHeartbeat(p, a, t)
        \/ \E s \in Addrs, r \in Addrs, t \in SameDay : PostSocialAction(p, s, r, t)
        \/ EnsureSelect(p)
        \/ EnsureInsert(p)
        \/ HbInsert(p)
        \/ HbUpdate(p)
        \/ HbRead(p)
        \/ SaCheck(p)
        \/ SaNoop(p)
        \/ SaInsert(p)
        \/ SaUpdate(p)
        \/ SaRead(p)
        \/ StorageFault(p)

SpecDay == Init /\ [][NextDay]_vars

\* heartbeats only: the requests that share one user's balance counter
NextHb ==
    \E p \in Procs :
        \/ \E a \in Addrs, t \in SameDay : PostHeartbeat(p, a, t)
        \/ EnsureSelect(p)
        \/ EnsureInsert(p)
        \/ HbInsert(p)
        \/ HbUpdate(p)
        \/ HbRead(p)
        \/ StorageFault(p)

SpecHb == Init /\ [][NextHb]_vars

\* ------------------------------------------------------------ Merkle cycle
\* digests are numbers; every leaf hash of the store is at most DigestBase
DigestBase == 4 * (MaxDay + 2)

\* sha256(Buffer.concat([x, y])): collision free, so an injective code of the
\* ordered pair, apart from every leaf hash
sha256(x, y) == DigestBase + ((x + y) * (x + y + 1)) \div 2 + y + 1

\* mutant: the tree hashes its pairs in position order (sortPairs left off)
HashUnsortedPair(x, y) == sha256(x, y)

\* sortPairs: the pair is sorted with Buffer.compare before it is hashed
HashSortedPair(x, y) == IF x < y THEN sha256(x, y) ELSE sha256(y, x)

\* MerkleTree._createHashes, one level: adjacent nodes are paired, an odd last
\* node is carried up unhashed (duplicateOdd is off)
RECURSIVE NextLayer(_)
NextLayer(nodes) ==
    IF Len(nodes) = 0 THEN <<>>
    ELSE IF Len(nodes) = 1 THEN <<nodes[1]>>
    ELSE <<HashSortedPair(nodes[1], nodes[2])>> \o NextLayer(SubSeq(nodes, 3, Len(nodes)))

\* new MerkleTree(leaves, sha256, { sortPairs: true }): the layers, leaves first
RECURSIVE Layers(_)
Layers(nodes) ==
    IF Len(nodes) <= 1 THEN <<nodes>> ELSE <<nodes>> \o Layers(NextLayer(nodes))

\* rows.map((r) => Buffer.from(r.leaf_hash, 'hex'))
LeafBuffers(rows) == [i \in 1..Len(rows) |-> FromHex(rows[i])]

\* tree.getRoot()
GetRoot(layers) == layers[Len(layers)][1]

\* the positions (from 0) at which the tree holds the leaf; getProof searches
\* the leaves for it
LeafIndexes(leaves, leaf) == {i - 1 : i \in {j \in 1..Len(leaves) : leaves[j] = leaf}}

\* tree.getProof from a position: at every layer the sibling of the node, when
\* there is one
RECURSIVE ProofFrom(_, _, _)
ProofFrom(layers, k, index) ==
    IF k > Len(layers) THEN <<>>
    ELSE LET pairIndex == IF index % 2 = 1 THEN index - 1 ELSE index + 1
             sibling == IF pairIndex < Len(layers[k])
                        THEN <<layers[k][pairIndex + 1]>> ELSE <<>>
         IN sibling \o ProofFrom(layers, k + 1, index \div 2)

\* tree.verify(proof, targetNode, root): fold the proof with the sorted-pair
\* rule and compare with the root
RECURSIVE FoldProof(_, _)
FoldProof(hash, proof) ==
    IF Len(proof) = 0 THEN hash
    ELSE FoldProof(IF hash < proof[1] THEN sha256(hash, proof[1]) ELSE sha256(proof[1], hash),
                   Tail(proof))

\* mutant: the recomputed hash is compared with the root on its last hex digit
VerifyLastDigit(proof, targetNode, root) == FoldProof(targetNode, proof) % 16 = root % 16

Verify(proof, targetNode, root) == FoldProof(targetNode, proof) = root

\* tree.getProof(leaf): the path from the position found, empty for a leaf
\* the tree does not hold
GetProof(layers, index) == IF index < 0 THEN <<>> ELSE ProofFrom(layers, 1, index)

\* the nodes of the tree at one level
Nodes(layers, k) == {layers[k][j] : j \in 1..Len(layers[k])}

\* sequence s with the elements at i and j exchanged
Swap(s, i, j) == [s EXCEPT ![i] = s[j], ![j] = s[i]]

LeafVals == {ToHex(v) : v \in 1..MaxLeafVal}
Batches == UNION {[1..n -> LeafVals] : n \in 1..MaxLeaves}

\* main() after a non-empty queryHeartbeatsSince: the rows' leaf hashes
InitMk ==
    /\ InitStore
    /\ InitReqs
    /\ mk_pc = "rows"
    /\ mk_leaves \in Batches
    /\ mk_root = <<>>
    /\ mk_leaf = 0
    /\ mk_proof = <<>>
    /\ mk_verified = FALSE
    /\ mk_perm = mk_leaves
    /\ mk_root2 = <<>>
    /\ mk_since = 0
    /\ mk_count = Len(mk_leaves)
    /\ mk_out = "none"
    /\ mk_exit = Null
    /\ mk_target = <<>>
    /\ InitGrowthOff
    /\ InitPanel

\* main(): build the tree and take its root as hex
MkBuild ==
    /\ mk_pc = "rows"
    /\ mk_pc' = "built"
    /\ mk_root' = ToHex(GetRoot(Layers(LeafBuffers(mk_leaves))))
    /\ mk_root2' = mk_root'
    /\ UNCHANGED <<mk_leaves, mk_leaf, mk_proof, mk_verified, mk_perm, mk_since, mk_count,
                   mk_out, mk_exit, mk_target, store, reqs, faults, growth, panel>>

\* main(): proof of a leaf of the batch (the script takes rows[0]) and its
\* self-check against the root, then the output and process.exit(0); which of
\* several equal leaves getProof finds depends on the library version
MkProve(i, index) ==
    /\ mk_pc = "built"
    /\ index \in LeafIndexes(LeafBuffers(mk_leaves), FromHex(mk_leaves[i]))
    /\ LET layers == Layers(LeafBuffers(mk_leaves))
           proof == ProofFrom(layers, 1, index)
       IN /\ mk_proof' = [k \in 1..Len(proof) |-> ToHex(proof[k])]
          /\ mk_verified' = Verify(proof, FromHex(mk_leaves[i]), GetRoot(layers))
    /\ mk_leaf' = i
    /\ mk_target' = mk_leaves[i]
    /\ mk_pc' = "proved"
    /\ mk_out' = "result"
    /\ mk_exit' = 0
    /\ UNCHANGED <<mk_leaves, mk_root, mk_perm, mk_root2, mk_since, mk_count, store, reqs, faults, growth, panel>>

NextMk ==
    \/ MkBuild
    \/ \E i \in 1..Len(mk_leaves), index \in 0..(MaxLeaves - 1) : MkProve(i, index)

\* the tree construction and the verifier on every batch up to MaxLeaves leaves
SpecMerkle == InitMk /\ [][NextMk]_vars

\* tree.verify for a leaf hash that is not in the batch, with the path
\* getProof answers for it (index -1) or with the path of a leaf of the batch
MkVerifyForeign ==
    /\ mk_pc = "built"
    /\ LET leaves == LeafBuffers(mk_leaves)
           layers == Layers(leaves)
       IN \E leaf \in 1..MaxLeafVal, index \in -1..(Len(leaves) - 1) :
             /\ LeafIndexes(leaves, leaf) = {}
             /\ LET proof == GetProof(layers, index)
                IN /\ mk_proof' = [k \in 1..Len(proof) |-> ToHex(proof[k])]
                   /\ mk_verified' = Verify(proof, leaf, GetRoot(layers))
             /\ mk_target' = ToHex(leaf)
    /\ mk_leaf' = 0
    /\ mk_pc' = "foreign"
    /\ UNCHANGED <<mk_leaves, mk_root, mk_perm, mk_root2, mk_since, mk_count, mk_out, mk_exit,
                   store, reqs, faults, growth, panel>>

\* tree.verify for the first or the last leaf of the batch with one sibling of
\* its path replaced by another leaf hash or another node of its level
MkVerifyAltered ==
    /\ mk_pc = "built"
    /\ LET leaves == LeafBuffers(mk_leaves)
           layers == Layers(leaves)
       IN \E i \in {1, Len(leaves)} :
             LET proof == GetProof(layers, i - 1)
             IN \E k \in 1..Len(proof) : \E v \in (1..MaxLeafVal) \cup Nodes(layers, k) :
                   /\ v # proof[k]
                   /\ LET altered == [proof EXCEPT ![k] = v]
                      IN /\ mk_proof' = [j \in 1..Len(altered) |-> ToHex(altered[j])]
                         /\ mk_verified' = Verify(altered, leaves[i], GetRoot(layers))
                   /\ mk_leaf' = i
                   /\ mk_target' = mk_leaves[i]
    /\ mk_pc' = "altered"
    /\ UNCHANGED <<mk_leaves, mk_root, mk_perm, mk_root2, mk_since, mk_count, mk_out, mk_exit,
                   store, reqs, faults, growth, panel>>

NextVerify ==
    \/ MkBuild
    \/ \E i \in 1..Len(mk_leaves) : MkProve(i, i - 1)
    \/ MkVerifyForeign
    \/ MkVerifyAltered

\* the verifier on genuine paths, foreign leaves and altered paths
SpecVerify == InitMk /\ [][NextVerify]_vars

\* the same rows reach the builder in another order: two of them exchanged
MkPermute(i, j) ==
    /\ mk_pc = "built"
    /\ i < j
    /\ mk_perm' = Swap(mk_perm, i, j)
    /\ mk_root2' = ToHex(GetRoot(Layers(LeafBuffers(mk_perm'))))
    /\ UNCHANGED <<mk_pc, mk_leaves, mk_root, mk_leaf, mk_proof, mk_verified, mk_since,
                   mk_count, mk_out, mk_exit, mk_target, store, reqs, faults, growth, panel>>

NextMkPerm ==
    \/ MkBuild
    \/ \E i \in 1..Len(mk_leaves), j \in 1..Len(mk_leaves) : MkPermute(i, j)

SpecMerklePerm == InitMk /\ [][NextMkPerm]_vars

\* ------------------------------------------------------------ the queries
\* rows as SELECT id, ton_address, timestamp, leaf_hash returns them
HeartbeatRows == [i \in 1..Len(heartbeats) |->
                    [id |-> i, ton_address |-> heartbeats[i].ton_address,
                     timestamp |-> heartbeats[i].timestamp,
                     leaf_hash |-> heartbeats[i].leaf_hash]]

\* ORDER BY timestamp ASC over the timestamp index: equal timestamps by rowid
RECURSIVE InsertByTimestamp(_, _)
InsertByTimestamp(sorted, row) ==
    IF Len(sorted) = 0 THEN <<row>>
    ELSE IF sorted[Len(sorted)].timestamp <= row.timestamp THEN Append(sorted, row)
    ELSE Append(InsertByTimestamp(SubSeq(sorted, 1, Len(sorted) - 1), row), sorted[Len(sorted)])

RECURSIVE OrderByTimestamp(_)
OrderByTimestamp(rows) ==
    IF Len(rows) = 0 THEN <<>>
    ELSE InsertByTimestamp(OrderByTimestamp(SubSeq(rows, 1, Len(rows) - 1)), rows[Len(rows)])

\* mutant: the window leaves out its first second
queryHeartbeatsAfter(sinceTimestamp) ==
    OrderByTimestamp(SelectSeq(HeartbeatRows, LAMBDA r : r.timestamp > sinceTimestamp))

\* queryHeartbeatsSince: WHERE timestamp >= ? ORDER BY timestamp ASC
queryHeartbeatsSince(sinceTimestamp) ==
    OrderByTimestamp(SelectSeq(HeartbeatRows, LAMBDA r : r.timestamp >= sinceTimestamp))

\* ----------------------------------------------- the cycle script's run
\* mutant: init() creates its tables afresh
CreateTable(rows) == <<>>

\* CREATE TABLE IF NOT EXISTS / CREATE INDEX IF NOT EXISTS on a database the
\* server has initialised: the table and its rows stay
CreateTableIfNotExists(rows) == rows

\* addColumnIfMissing: PRAGMA table_info finds the column, no ALTER TABLE runs
AddColumnIfMissing(table) == table

\* mutant: the branch for an empty batch is never taken
NoLeavesNever(rows) == FALSE

\* !rows || rows.length === 0
NoLeaves(rows) == Len(rows) = 0

\* main(): await init(), then sinceTs = now - 6h for the clock's now
MkStart(sinceTs) ==
    /\ mk_pc = "off"
    /\ mk_pc' = "query"
    /\ mk_since' = sinceTs
    /\ users' = AddColumnIfMissing(users)
    /\ heartbeats' = CreateTableIfNotExists(heartbeats)
    /\ social_actions' = CreateTableIfNotExists(social_actions)
    /\ UNCHANGED <<mk_leaves, mk_root, mk_leaf, mk_proof, mk_verified, mk_perm, mk_root2,
                   mk_count, mk_out, mk_exit, mk_target, reqs, faults, growth, panel>>

\* main(): await queryHeartbeatsSince(sinceTs); an empty batch prints the
\* message and leaves with process.exit(0), else the leaves go to the builder
MkQuery ==
    /\ mk_pc = "query"
    /\ LET rows == queryHeartbeatsSince(mk_since)
       IN /\ mk_count' = Len(rows)
          /\ IF NoLeaves(rows)
             THEN /\ mk_pc' = "exit"
                  /\ mk_out' = "message"
                  /\ mk_exit' = 0
                  /\ UNCHANGED <<mk_leaves, mk_perm>>
             ELSE /\ mk_pc' = "rows"
                  /\ mk_leaves' = [i \in 1..Len(rows) |-> rows[i].leaf_hash]
                  /\ mk_perm' = mk_leaves'
                  /\ UNCHANGED <<mk_out, mk_exit>>
    /\ UNCHANGED <<mk_root, mk_leaf, mk_proof, mk_verified, mk_root2, mk_since, mk_target,
                   store, reqs, faults, growth, panel>>

\* main(): the query is rejected; the catch logs and leaves with process.exit(1)
MkFault ==
    /\ mk_pc = "query"
    /\ faults < MaxFaults
    /\ faults' = faults + 1
    /\ mk_pc' = "exit"
    /\ mk_out' = "error"
    /\ mk_exit' = 1
    /\ UNCHANGED <<mk_leaves, mk_root, mk_leaf, mk_proof, mk_verified, mk_perm, mk_root2,
                   mk_since, mk_count, mk_target, store, reqs, growth, panel>>

\* one run of the script beside a server whose caller sends heartbeats one
\* at a time
NextCycle ==
    \/ \E p \in Procs :
          \/ NoneInFlight /\ \E a \in Addrs, t \in SameDay : PostHeartbeat(p, a, t)
          \/ EnsureSelect(p)
          \/ EnsureInsert(p)
          \/ HbInsert(p)
          \/ HbUpdate(p)
          \/ HbRead(p)
          \/ StorageFault(p)
    \/ \E sinceTs \in Times : MkStart(sinceTs)
    \/ MkQuery
    \/ MkFault
    \/ MkBuild
    \/ \E index \in 0..(MaxLeaves - 1) : MkProve(1, index)

SpecCycle == Init /\ [][NextCycle]_vars

\* ------------------------------------------------------ daily growth job
\* Math.random() as one of RandSteps equally spaced values k / RandSteps
Rand == 0..(RandSteps - 1)

\* mutant: the range is one too wide
randomIntWide(min, max, k) == ((k * (max - min + 2)) \div RandSteps) + min

\* randomInt(min, max) = Math.floor(Math.random() * (max - min + 1)) + min
randomInt(min, max, k) == ((k * (max - min + 1)) \div RandSteps) + min

\* computeDailyUpdate(mutationScore, currentGrowth) for the two random draws:
\* prob = min(0.5, score / 100), didBoost = Math.random() < prob
computeDailyUpdate(mutationScore, currentGrowth, k1, k2) ==
    LET score == IF mutationScore > 0 THEN mutationScore ELSE 0
        prob100 == IF score < 50 THEN score ELSE 50
        didBoost == k1 * 100 < prob100 * RandSteps
        boost == IF didBoost THEN randomInt(BOOST_MIN, BOOST_MAX, k2) ELSE 0
        increment == DAILY_BASE_GROWTH + boost
    IN [increment |-> increment, newGrowth |-> currentGrowth + increment,
        didBoost |-> didBoost]

\* mutant: the reset reaches the owners of the processed sharbors only
ResetOwnerScores(us) ==
    [a \in DOMAIN us |->
        IF \E i \in 1..Len(job_rows) : job_rows[i].owner_address = a
        THEN [us[a] EXCEPT !.mutation_score = 0] ELSE us[a]]

\* UPDATE users SET mutation_score = 0 WHERE mutation_score != 0
ResetScores(us) ==
    [a \in DOMAIN us |->
        IF us[a].present /\ us[a].mutation_score # 0
        THEN [us[a] EXCEPT !.mutation_score = 0] ELSE us[a]]

\* SELECT mutation_score FROM users WHERE ton_address = ?; owner ? ... : 0
OwnerScore(owner_address) ==
    IF owner_address \in DOMAIN users /\ users[owner_address].present
    THEN users[owner_address].mutation_score ELSE 0

\* processSharbors: await init()
JobStart ==
    /\ job_pc = "off"
    /\ job_pc' = "select"
    /\ job_users0' = users
    /\ UNCHANGED <<sharbors, job_rows, job_i, job_new, job_incs, job_exit,
                   store, reqs, faults, mk, panel>>

\* processSharbors: SELECT ... FROM sharbors; an empty table goes to the reset
JobSelect ==
    /\ job_pc = "select"
    /\ job_rows' = sharbors
    /\ job_i' = 1
    /\ job_pc' = IF Len(sharbors) = 0 THEN "reset" ELSE "owner"
    /\ UNCHANGED <<sharbors, job_new, job_incs, job_users0, job_exit,
                   store, reqs, faults, mk, panel>>

\* processSharbors, loop body: read the owner's score and compute the update;
\* the social actions whose delta this read holds are marked
JobReadOwner(k1, k2) ==
    /\ job_pc = "owner"
    /\ LET s == job_rows[job_i]
           u == computeDailyUpdate(OwnerScore(s.owner_address), s.growth_progress, k1, k2)
       IN /\ job_new' = u.newGrowth
          /\ job_incs' = Append(job_incs, u.increment)
          /\ reqs' = [p \in Procs |->
                IF reqs[p].kind = "social" /\ reqs[p].updated /\ ~reqs[p].zeroed
                   /\ reqs[p].addr = s.owner_address
                THEN [reqs[p] EXCEPT !.seen = TRUE] ELSE reqs[p]]
    /\ job_pc' = "update"
    /\ UNCHANGED <<sharbors, job_rows, job_i, job_users0, job_exit,
                   store, faults, mk, panel>>

\* processSharbors, loop body: UPDATE sharbors SET growth_progress = ?
\* WHERE nft_address = ?
JobUpdate ==
    /\ job_pc = "update"
    /\ sharbors' = [i \in 1..Len(sharbors) |->
          IF sharbors[i].nft_address = job_rows[job_i].nft_address
          THEN [sharbors[i] EXCEPT !.growth_progress = job_new] ELSE sharbors[i]]
    /\ job_i' = job_i + 1
    /\ job_pc' = IF job_i < Len(job_rows) THEN "owner" ELSE "reset"
    /\ UNCHANGED <<job_rows, job_new, job_incs, job_users0, job_exit,
                   store, reqs, faults, mk, panel>>

\* processSharbors: the reset of every score, then the summary and exit(0);
\* the social actions whose delta the reset clears are marked
JobReset ==
    /\ job_pc = "reset"
    /\ users' = ResetScores(users)
    /\ reqs' = [p \in Procs |->
          IF reqs[p].kind = "social" /\ reqs[p].updated
          THEN [reqs[p] EXCEPT !.zeroed = TRUE] ELSE reqs[p]]
    /\ job_pc' = "done"
    /\ job_exit' = 0
    /\ UNCHANGED <<sharbors, job_rows, job_i, job_new, job_incs, job_users0,
                   heartbeats, social_actions, faults, mk, panel>>

\* a statement of the job is rejected: the catch logs and leaves with exit(1)
JobFault ==
    /\ JobRunning
    /\ faults < MaxFaults
    /\ faults' = faults + 1
    /\ job_pc' = "failed"
    /\ job_exit' = 1
    /\ UNCHANGED <<sharbors, job_rows, job_i, job_new, job_incs, job_users0,
                   store, reqs, mk, panel>>

\* the sharbors another service has minted before the job runs
Owners == Addrs \cup {"c"}
SharborTables ==
    UNION {[1..n -> [nft_address : {0}, owner_address : Owners, growth_progress : {0}]]
             : n \in 0..MaxSharbors}

InitJob ==
    /\ InitStore
    /\ InitReqs
    /\ InitMkOff
    /\ InitPanel
    /\ \E t \in SharborTables :
          sharbors = [i \in 1..Len(t) |-> [t[i] EXCEPT !.nft_address = i]]
    /\ job_pc = "off"
    /\ job_rows = <<>>
    /\ job_i = 0
    /\ job_new = 0
    /\ job_incs = <<>>
    /\ job_users0 = [a \in Addrs |-> NoUser]
    /\ job_exit = Null

\* the job's steps
JobStep ==
    \/ JobStart
    \/ JobSelect
    \/ \E k1 \in Rand, k2 \in Rand : JobReadOwner(k1, k2)
    \/ JobUpdate
    \/ JobReset
    \/ JobFault

\* social actions of one day, one at a time, and then one run of the job with
\* no request in flight from its start to its exit
NextJobAlone ==
    \/ \E p \in Procs :
          \/ (NoneInFlight /\ job_pc = "off") /\ \E s \in Addrs, r \in Addrs, t \in SameDay :
                                                   PostSocialAction(p, s, r, t)
          \/ EnsureSelect(p)
          \/ EnsureInsert(p)
          \/ SaCheck(p)
          \/ SaNoop(p)
          \/ SaInsert(p)
          \/ SaUpdate(p)
          \/ SaRead(p)
    \/ NoneInFlight /\ JobStep

SpecJobAlone == InitJob /\ [][NextJobAlone]_vars

\* one sharbor, owned by a user
InitOps ==
    /\ InitStore
    /\ InitReqs
    /\ InitMkOff
    /\ InitPanel
    /\ sharbors = <<[nft_address |-> 1, owner_address |-> "a", growth_progress |-> 0]>>
    /\ job_pc = "off"
    /\ job_rows = <<>>
    /\ job_i = 0
    /\ job_new = 0
    /\ job_incs = <<>>
    /\ job_users0 = [a \in Addrs |-> NoUser]
    /\ job_exit = Null

\* the cycle script is between its start and its exit
MkRunning == mk_pc \notin {"off", "proved", "exit"}

\* every operation on the store: the three kinds of request, one at a time,
\* beside a run of the cycle script and a run of the growth job, of which one
\* runs at a time
NextOps ==
    \/ \E p \in Procs :
          \/ NoneInFlight /\ \E a \in Addrs, t \in SameDay : PostHeartbeat(p, a, t)
          \/ NoneInFlight /\ \E s \in Addrs, r \in Addrs : PostSocialAction(p, s, r, 0)
          \/ NoneInFlight /\ \E a \in Addrs : GetSharborState(p, a)
          \/ EnsureSelect(p)
          \/ EnsureInsert(p)
          \/ HbInsert(p)
          \/ HbUpdate(p)
          \/ HbRead(p)
          \/ SaCheck(p)
          \/ SaNoop(p)
          \/ SaInsert(p)
          \/ SaUpdate(p)
          \/ SaRead(p)
          \/ GsRead(p)
    \/ ~JobRunning /\ MkStart(0)
    \/ MkQuery
    \/ MkBuild
    \/ \E index \in 0..(MaxLeaves - 1) : MkProve(1, index)
    \/ ~MkRunning /\ JobStart
    \/ JobSelect
    \/ \E k \in {0, RandSteps - 1} : JobReadOwner(k, k)
    \/ JobUpdate
    \/ JobReset

SpecOps == InitOps /\ [][NextOps]_vars

\* social actions of one day, one at a time, while a run of the growth job
\* takes its steps between theirs
NextJobRace ==
    \/ \E p \in Procs :
          \/ NoneInFlight /\ \E s \in Addrs, r \in Addrs : PostSocialAction(p, s, r, 0)
          \/ EnsureSelect(p)
          \/ EnsureInsert(p)
          \/ SaCheck(p)
          \/ SaNoop(p)
          \/ SaInsert(p)
          \/ SaUpdate(p)
          \/ SaRead(p)
    \/ JobStart
    \/ JobSelect
    \/ \E k \in {0, RandSteps - 1} : JobReadOwner(k, k)
    \/ JobUpdate
    \/ JobReset

SpecJobRace == InitJob /\ [][NextJobRace]_vars

\* ----------------------------------------------------------- social panel
\* the outcomes of waterFriend as the panel shows them: applied, refused by
\* the daily limit, failed (ok:false or a rejected promise)
Outcomes == {"done", "limit", "error"}

\* the Water button of a friend: disabled={state === 'busy'}
Disabled(f) == watering[f] = "busy"

\* a click on an enabled Water button runs onWater up to its await:
\* the state becomes 'busy' and the request leaves
onWater(f) ==
    /\ ~Disabled(f)
    /\ clicks < MaxClicks
    /\ clicks' = clicks + 1
    /\ watering' = [watering EXCEPT ![f] = "busy"]
    /\ inflight' = [inflight EXCEPT ![f] = @ + 1]
    /\ UNCHANGED <<timers, store, reqs, faults, mk, growth>>

\* onWater after its await: the outcome is shown and the 1600 ms timer is set
WaterResponse(f, outcome) ==
    /\ inflight[f] > 0
    /\ inflight' = [inflight EXCEPT ![f] = @ - 1]
    /\ watering' = [watering EXCEPT ![f] = outcome]
    /\ timers' = [timers EXCEPT ![f] = @ + 1]
    /\ UNCHANGED <<clicks, store, reqs, faults, mk, growth>>

\* a 1600 ms timer of the address fires: the state is set to 'idle'
ResetToIdle(f) ==
    /\ timers[f] > 0
    /\ timers' = [timers EXCEPT ![f] = @ - 1]
    /\ watering' = [watering EXCEPT ![f] = "idle"]
    /\ UNCHANGED <<inflight, clicks, store, reqs, faults, mk, growth>>

NextPanel ==
    \E f \in Addrs :
        \/ onWater(f)
        \/ \E outcome \in Outcomes : WaterResponse(f, outcome)
        \/ ResetToIdle(f)

SpecPanel == Init /\ [][NextPanel]_vars

\* ------------------------------------------------------------- properties
Accepted(p) == reqs[p].pc = "done" /\ reqs[p].status = 200
Latest(p) == reqs[p].kind # "none" /\ \A q \in Procs : q > p => reqs[q].kind = "none"
Days == 0..MaxDay

SocialReqs(r, d) ==
    {p \in Procs : reqs[p].kind = "social" /\ reqs[p].addr = r /\ Day(reqs[p].ts) = d}
SocialRows(r, d) ==
    {i \in 1..Len(social_actions) :
        social_actions[i].receiver = r /\ Day(social_actions[i].timestamp) = d}
HeartbeatReqs(a) == {p \in Procs : reqs[p].kind = "heartbeat" /\ reqs[p].addr = a}
HeartbeatsOf(a) == {i \in 1..Len(heartbeats) : heartbeats[i].ton_address = a}

RECURSIVE DeltaSum(_, _)
DeltaSum(rows, r) ==
    IF Len(rows) = 0 THEN 0
    ELSE DeltaSum(Tail(rows), r) + (IF rows[1].receiver = r THEN rows[1].mutation_delta ELSE 0)

\* C1: social actions applied one after another to one receiver with
\* timestamps in one UTC day: at most one of them increases the mutation score;
\* every one that follows a completed or logged one returns applied:false and
\* does not touch the score, which stays one delta per increase.
C1_OncePerDaySequential ==
    \A r \in Addrs :
        /\ users[r].mutation_score =
              SOCIAL_DELTA * Cardinality({p \in Procs : reqs[p].kind = "social"
                                             /\ reqs[p].addr = r /\ reqs[p].updated})
        /\ \A d \in Days :
              /\ Cardinality({p \in SocialReqs(r, d) : reqs[p].updated}) <= 1
              /\ \A p, q \in SocialReqs(r, d) :
                    (p < q /\ Accepted(q) /\ (Accepted(p) \/ reqs[p].inserted))
                       => (reqs[q].applied = "no" /\ ~reqs[q].updated
                           /\ (Latest(q) => reqs[q].ret = users[r].mutation_score))

C1_Witness ==
    \E r \in Addrs, d \in Days : \E p, q \in SocialReqs(r, d) :
        /\ p < q
        /\ Accepted(p) /\ reqs[p].applied = "yes" /\ reqs[p].ret = SOCIAL_DELTA
        /\ Accepted(q) /\ reqs[q].applied = "no" /\ reqs[q].ret = SOCIAL_DELTA
        /\ reqs[p].ts # reqs[q].ts

\* C2: two social actions for one receiver in one UTC day whose database steps
\* interleave do not both apply: at most one returns applied:true, at most one
\* row is logged for the day, and the score rises by at most one delta per day.
C2_RaceSafe ==
    \A r \in Addrs :
        /\ \A d \in Days :
              /\ Cardinality({p \in SocialReqs(r, d) : reqs[p].applied = "yes"}) <= 1
              /\ Cardinality(SocialRows(r, d)) <= 1
        /\ users[r].mutation_score <=
              SOCIAL_DELTA * Cardinality({d \in Days : SocialRows(r, d) # {}})

\* C3: recording a heartbeat is atomic: once no request is in flight, every
\* Heartbeat row has its balance credit and every credit its row, also when a
\* statement failed.
C3_HeartbeatAtomic ==
    NoneInFlight =>
        \A a \in Addrs :
            users[a].shard_balance = HEARTBEAT_REWARD * Cardinality(HeartbeatsOf(a))

\* C4: after an accepted heartbeat (no other request since, no statement
\* failed) the user's balance is the balance before the call plus the reward,
\* and every queryHeartbeatsSince with a bound up to its timestamp holds its
\* leaf exactly once.
C4_HeartbeatRecorded ==
    \A p \in Procs :
        (reqs[p].kind = "heartbeat" /\ Accepted(p) /\ Latest(p) /\ faults = 0) =>
            /\ users[reqs[p].addr].present
            /\ users[reqs[p].addr].shard_balance = reqs[p].pre + HEARTBEAT_REWARD
            /\ \A since \in Times :
                  since <= reqs[p].ts =>
                     LET rows == queryHeartbeatsSince(since)
                     IN Cardinality({i \in 1..Len(rows) : rows[i].leaf_hash =
                           computeHeartbeatLeaf(reqs[p].addr, reqs[p].ts)}) = 1

\* C5: round trip of the Merkle batch: the proof generated for any leaf of any
\* non-empty batch verifies against the batch's root.
C5_RoundTrip ==
    mk_pc = "proved" => (mk_verified /\ mk_root = ToHex(FoldProof(FromHex(mk_leaves[mk_leaf]),
                                 [k \in 1..Len(mk_proof) |-> FromHex(mk_proof[k])])))

C5_Witness ==
    /\ mk_pc = "proved"
    /\ Len(mk_leaves) = 3
    /\ mk_leaf = 3
    /\ Len(mk_proof) = 1
    /\ mk_verified

\* C6: the Merkle root does not depend on the order of the leaves: the rows in
\* a permuted order give the same root, and every leaf's proof from the
\* permuted tree verifies against it.
C6_OrderIndependent ==
    mk_pc = "built" =>
        /\ mk_root2 = mk_root
        /\ LET leaves == LeafBuffers(mk_perm)
               layers == Layers(leaves)
           IN \A i \in 1..Len(leaves) : \A index \in LeafIndexes(leaves, leaves[i]) :
                 Verify(ProofFrom(layers, 1, index), leaves[i], GetRoot(layers))

\* C7: every address a Heartbeat row or a SocialAction row refers to (sender
\* and receiver) has a User row.
C7_UserRowExists ==
    /\ \A i \in 1..Len(heartbeats) : users[heartbeats[i].ton_address].present
    /\ \A i \in 1..Len(social_actions) :
          /\ users[social_actions[i].receiver].present
          /\ users[social_actions[i].sender].present

\* C8: interleaved ensureUser calls for one new address all complete without
\* an error (the one User row per address is the primary key).
C8_EnsureUserConcurrent ==
    \A p \in Procs : reqs[p].err # "constraint"

\* C9: heartbeats for one user that interleave lose no update: the balance is
\* the reward times the credits executed, the user's rows are the inserts
\* executed, and when all N heartbeats for the user were accepted the balance
\* is N times the reward with N rows.
C9_NoLostUpdate ==
    \A a \in Addrs :
        LET hs == HeartbeatReqs(a) IN
        /\ users[a].shard_balance = HEARTBEAT_REWARD * Cardinality({p \in hs : reqs[p].updated})
        /\ Cardinality(HeartbeatsOf(a)) = Cardinality({p \in hs : reqs[p].inserted})
        /\ (\A p \in hs : Accepted(p)) =>
              /\ users[a].shard_balance = Cardinality(hs) * HEARTBEAT_REWARD
              /\ Cardinality(HeartbeatsOf(a)) = Cardinality(hs)

\* two accepted heartbeats of one user whose statements interleaved: both read
\* back the balance with both credits
C9_Witness ==
    \E a \in Addrs : \E p, q \in HeartbeatReqs(a) :
        /\ p < q
        /\ Accepted(p) /\ Accepted(q)
        /\ reqs[p].ret = 2 * HEARTBEAT_REWARD
        /\ reqs[q].ret = 2 * HEARTBEAT_REWARD
        /\ users[a].shard_balance = 2 * HEARTBEAT_REWARD

\* C10: an applied social action leaves no partial state: once no request is
\* in flight, every receiver's mutation score holds the delta of each
\* SocialAction row logged for it, also when a statement failed.
C10_SocialAtomic ==
    NoneInFlight =>
        \A r \in Addrs : users[r].mutation_score = DeltaSum(social_actions, r)

\* C11: after an accepted heartbeat for an address, the sharbor-state read for
\* that address answers a row with that ton_address and a last_heartbeat_time
\* field holding a positive value
C11_StateAfterHeartbeat ==
    \A p \in Procs, q \in Procs :
        (/\ Accepted(q) /\ reqs[q].kind = "heartbeat" /\ reqs[q].ts > 0
         /\ Accepted(p) /\ reqs[p].kind = "state"
         /\ q < p /\ reqs[p].addr = reqs[q].addr)
        => /\ reqs[p].row.ton_address = reqs[p].addr
           /\ "last_heartbeat_time" \in DOMAIN reqs[p].row
           /\ reqs[p].row.last_heartbeat_time > 0

\* C12: when the window's query returns zero leaves the builder prints the
\* message, has no root and no proof, exits with status 0, and no tree is ever
\* built or verified on an empty batch
C12_EmptyBatch ==
    /\ mk_count = 0 =>
          /\ mk_pc = "exit" /\ mk_out = "message" /\ mk_exit = 0
          /\ mk_leaves = <<>> /\ mk_root = <<>> /\ mk_proof = <<>> /\ ~mk_verified
    /\ mk_pc \in {"rows", "built", "proved"} => Len(mk_leaves) > 0

\* an empty window on a store that holds heartbeats outside it
C12_Witness ==
    /\ mk_count = 0
    /\ mk_pc = "exit"
    /\ Len(heartbeats) > 0

\* the hash recomputed from a leaf and a path, both as the hex the script
\* prints, with the sorted-pair rule
RECURSIVE Recompute(_, _)
Recompute(hash, path) ==
    IF Len(path) = 0 THEN hash
    ELSE Recompute(HashSortedPair(hash, FromHex(path[1])), Tail(path))

\* C13: the verifier answers true exactly when the hash recomputed from the
\* leaf and the path equals the root; for a leaf that is not in the batch and
\* for a path with one sibling altered it answers false, always as a value
C13_VerifierSound ==
    mk_pc \in {"proved", "foreign", "altered"} =>
        /\ mk_verified \in BOOLEAN
        /\ mk_verified <=> (Recompute(FromHex(mk_target), mk_proof) = FromHex(mk_root))
        /\ mk_pc \in {"foreign", "altered"} => ~mk_verified

\* an altered path of a leaf of a batch of three or more, answered false
C13_Witness ==
    /\ mk_pc = "altered"
    /\ Len(mk_leaves) >= 3
    /\ Len(mk_proof) >= 2
    /\ ~mk_verified

\* a social request whose sender is its receiver
SelfSend(p) == reqs[p].kind = "social" /\ Trim(reqs[p].sender) = Trim(reqs[p].addr)

\* C14: a social action whose sender equals its receiver is answered with the
\* validation error and changes nothing: it runs no statement, no SocialAction
\* row names one address as sender and receiver, and a store that only such
\* requests were sent to is still empty
C14_SelfSendRejected ==
    /\ \A p \in Procs :
          SelfSend(p) => /\ reqs[p].pc = "done" /\ reqs[p].status = 400
                         /\ ~reqs[p].inserted /\ ~reqs[p].updated
                         /\ reqs[p].applied = "na"
    /\ \A i \in 1..Len(social_actions) :
          Trim(social_actions[i].sender) # Trim(social_actions[i].receiver)
    /\ (\A p \in Procs : reqs[p].kind # "none" => SelfSend(p))
          => /\ \A a \in Addrs : users[a] = NoUser
             /\ social_actions = <<>>
             /\ heartbeats = <<>>

\* a rejected self-send after an applied action of another sender: the score
\* and the log are as that action left them
C14_Witness ==
    \E p, q \in Procs :
        /\ p < q
        /\ Accepted(p) /\ reqs[p].applied = "yes"
        /\ SelfSend(q) /\ reqs[q].status = 400 /\ reqs[q].addr = reqs[p].addr
        /\ users[reqs[q].addr].mutation_score = SOCIAL_DELTA
        /\ Len(social_actions) = 1

\* C15: a heartbeat with a missing address or a negative timestamp is answered
\* with the client error at once and changes nothing: it creates no User row,
\* inserts no Heartbeat row and credits no balance
C15_HeartbeatValidated ==
    faults = 0 =>
        /\ \A p \in Procs :
              (reqs[p].kind = "heartbeat" /\ (reqs[p].addr = "" \/ reqs[p].ts < 0))
              => /\ reqs[p].pc = "done" => reqs[p].status = 400
                 /\ ~reqs[p].inserted /\ ~reqs[p].updated
        /\ \A i \in 1..Len(heartbeats) : heartbeats[i].timestamp >= 0

\* the SocialAction rows that count against a call for receiver r at time ts
RowsOfDay(r, ts) ==
    {i \in 1..Len(social_actions) :
        social_actions[i].receiver = r /\ social_actions[i].timestamp >= DayStart(ts)}

\* C16: the daily limit is keyed by the receiver alone: whoever the sender is,
\* a completed call applied exactly when no row for its receiver and day was
\* there before it, a refused call was refused by a row of any sender, and two
\* different senders never both raise one receiver's score in one UTC day
C16_LimitByReceiver ==
    /\ \A q \in Procs :
          (reqs[q].kind = "social" /\ Accepted(q)) =>
              /\ reqs[q].applied = "yes" =>
                    /\ reqs[q].inserted
                    /\ reqs[q].ret = reqs[q].pre + SOCIAL_DELTA
                    /\ Latest(q) => Cardinality(RowsOfDay(reqs[q].addr, reqs[q].ts)) = 1
              /\ reqs[q].applied = "no" =>
                    /\ ~reqs[q].inserted
                    /\ RowsOfDay(reqs[q].addr, reqs[q].ts) # {}
    /\ \A r \in Addrs, d \in Days : \A p, q \in SocialReqs(r, d) :
          (p # q /\ reqs[p].sender # reqs[q].sender)
          => ~(reqs[p].inserted /\ reqs[q].inserted)

\* a second sender's call for the same receiver and day: refused, and it reads
\* the score the first sender's call left
C16_Witness ==
    \E r \in Addrs, d \in Days : \E p, q \in SocialReqs(r, d) :
        /\ p < q
        /\ reqs[p].sender # reqs[q].sender
        /\ Trim(reqs[p].sender) # Trim(reqs[q].sender)
        /\ Accepted(p) /\ reqs[p].applied = "yes"
        /\ Accepted(q) /\ reqs[q].applied = "no"
        /\ reqs[q].ret = reqs[p].ret
        /\ users[r].mutation_score = SOCIAL_DELTA

\* C17: a step of a request for address A (a heartbeat for A, a social action
\* with receiver A), whatever other requests are in flight, leaves the User
\* row of every other address as it was
C17_OtherUsersUntouched ==
    [][\A p \in Procs :
          reqs'[p] # reqs[p] =>
              \A b \in Addrs : b # reqs'[p].addr => users'[b] = users[b]]_vars

\* a heartbeat for one user and a social action for the other, both accepted:
\* each row holds its own request's effect only
C17_Witness ==
    \E p, q \in Procs :
        /\ reqs[p].kind = "heartbeat" /\ Accepted(p)
        /\ reqs[q].kind = "social" /\ Accepted(q) /\ reqs[q].applied = "yes"
        /\ reqs[p].addr # reqs[q].addr
        /\ users[reqs[p].addr].shard_balance = HEARTBEAT_REWARD
        /\ users[reqs[p].addr].mutation_score = 0
        /\ users[reqs[q].addr].mutation_score = SOCIAL_DELTA
        /\ users[reqs[q].addr].shard_balance = 0
        /\ users[reqs[q].addr].last_heartbeat = Null

\* window starts to ask for: the instants of the inputs and the second after each
Sinces == Times \cup {t + 1 : t \in Times}

\* C18: queryHeartbeatsSince(sinceTimestamp) answers exactly the Heartbeat rows
\* with timestamp >= sinceTimestamp, each once and as stored, in ascending
\* order of timestamp
C18_QueryExact ==
    \A since \in Sinces :
        LET rows == queryHeartbeatsSince(since)
        IN /\ \A i \in 1..Len(heartbeats) :
                 heartbeats[i].timestamp >= since
                 <=> \E k \in 1..Len(rows) : rows[k].id = i
           /\ \A k \in 1..Len(rows) :
                 /\ rows[k].id \in 1..Len(heartbeats)
                 /\ rows[k].ton_address = heartbeats[rows[k].id].ton_address
                 /\ rows[k].timestamp = heartbeats[rows[k].id].timestamp
                 /\ rows[k].leaf_hash = heartbeats[rows[k].id].leaf_hash
           /\ \A k, l \in 1..Len(rows) :
                 k < l => /\ rows[k].id # rows[l].id
                          /\ rows[k].timestamp <= rows[l].timestamp

\* the later heartbeat was stored first: the full window answers the rows in
\* the other order, a window starting at the later instant answers one row
C18_Witness ==
    /\ Len(heartbeats) = 2
    /\ heartbeats[1].timestamp > heartbeats[2].timestamp
    /\ queryHeartbeatsSince(heartbeats[2].timestamp)[1].id = 2
    /\ Len(queryHeartbeatsSince(heartbeats[1].timestamp)) = 1
    /\ Len(queryHeartbeatsSince(heartbeats[1].timestamp + 1)) = 0

\* C19: a run of the cycle script only reads the store: every step of the
\* script, from init() to its exit, leaves every User, Heartbeat and
\* SocialAction row as it was, with an empty batch and with a non-empty one
C19_CycleReadOnly ==
    [][mk' # mk => store' = store]_vars

\* a finished run over a store with rows, where rows arrived during the run
C19_Witness ==
    /\ mk_pc = "proved"
    /\ mk_exit = 0
    /\ mk_count > 0
    /\ Len(heartbeats) > mk_count
    /\ \E a \in Addrs : users[a].shard_balance > 0

C21_EnsureUserIdempotent ==
    [][\A p \in Procs :
          (/\ reqs[p].pc \in {"eu_select", "eu_insert"}
           /\ reqs'[p] # reqs[p]
           /\ reqs'[p].err # "fault")
          => LET a == reqs[p].addr
             IN /\ users[a].present =>
                      /\ users' = users
                      /\ reqs'[p].pc = AfterEnsure(reqs[p].kind)
                /\ (~users[a].present /\ reqs[p].pc = "eu_select") =>
                      /\ users' = users
                      /\ reqs'[p].pc = "eu_insert"
                /\ (~users[a].present /\ reqs[p].pc = "eu_insert") =>
                      /\ users' = [users EXCEPT ![a] =
                            [present |-> TRUE, shard_balance |-> 0, health |-> 100,
                             growth_percent |-> 0, mutation_score |-> 0,
                             last_heartbeat |-> Null, last_heartbeat_time |-> Null]]
                      /\ reqs'[p].pc = AfterEnsure(reqs[p].kind)]_vars

\* two state reads of one address, one after the other: the first created the
\* row, the second found it, and both read the default row
C21_Witness ==
    \E p, q \in Procs :
        /\ p < q
        /\ reqs[p].kind = "state" /\ Accepted(p)
        /\ reqs[q].kind = "state" /\ Accepted(q)
        /\ reqs[p].addr = reqs[q].addr
        /\ reqs[p].row = reqs[q].row
        /\ reqs[q].row.health = DEFAULT_HEALTH
        /\ reqs[q].row.shard_balance = 0
        /\ reqs[q].row.last_heartbeat = Null

\* C22: the heartbeat log is append-only: no step of a heartbeat, a social
\* action, a state read, the cycle script or the growth job changes or removes
\* a Heartbeat row that is there; the log only grows
C22_HeartbeatsAppendOnly ==
    [][/\ Len(heartbeats') >= Len(heartbeats)
       /\ \A i \in 1..Len(heartbeats) : heartbeats'[i] = heartbeats[i]]_vars

\* a log of two rows of one user after the growth job and the cycle script
\* have both finished
C22_Witness ==
    /\ Len(heartbeats) = 2
    /\ heartbeats[1].ton_address = heartbeats[2].ton_address
    /\ heartbeats[1].timestamp # heartbeats[2].timestamp
    /\ job_pc = "done"
    /\ mk_pc \in {"proved", "exit"}

\* C23: when a run of the growth job ends with no request interleaved, every
\* user's mutation_score is 0, with an empty sharbors table and with a
\* non-empty one, and every other field of every User row is as the run
\* found it
C23_JobResetsScores ==
    job_pc = "done" =>
        \A a \in Addrs :
            /\ users[a].mutation_score = 0
            /\ users[a].present = job_users0[a].present
            /\ users[a].shard_balance = job_users0[a].shard_balance
            /\ users[a].health = job_users0[a].health
            /\ users[a].growth_percent = job_users0[a].growth_percent
            /\ users[a].last_heartbeat = job_users0[a].last_heartbeat
            /\ users[a].last_heartbeat_time = job_users0[a].last_heartbeat_time

\* a finished run over an empty sharbors table that found a watered user
C23_Witness ==
    /\ job_pc = "done"
    /\ Len(job_rows) = 0
    /\ \E a \in Addrs : job_users0[a].mutation_score = SOCIAL_DELTA
    /\ \E a \in Addrs : users[a].present /\ users[a].health = DEFAULT_HEALTH

\* the boost of the i-th sharbor processed by the run
BoostOf(i) == job_incs[i] - DAILY_BASE_GROWTH

\* C24: in one run of the growth job each sharbor's growth_progress rises by
\* the base increment plus a boost that is 0 or an integer from 2 to 8, and
\* the boost is 0 when the owner's mutation score is 0 or the owner has no
\* User row
C24_BoostRange ==
    \A i \in 1..Len(job_incs) :
        /\ BoostOf(i) = 0 \/ (2 <= BoostOf(i) /\ BoostOf(i) <= 8)
        /\ LET owner == job_rows[i].owner_address
           IN (\/ owner \notin Addrs
               \/ ~job_users0[owner].present
               \/ job_users0[owner].mutation_score = 0) => BoostOf(i) = 0
        /\ (job_i > i \/ job_pc = "done") =>
              sharbors[i].growth_progress = job_rows[i].growth_progress + job_incs[i]

\* a finished run that gave a watered owner's sharbor the largest boost
C24_Witness ==
    /\ job_pc = "done"
    /\ \E i \in 1..Len(job_incs) :
          /\ BoostOf(i) = 8
          /\ sharbors[i].growth_progress = job_rows[i].growth_progress + 9
          /\ job_users0[job_rows[i].owner_address].mutation_score = SOCIAL_DELTA

\* C25: a heartbeat that repeats an (address, timestamp) pair already recorded
\* inserts no second row with the same leaf hash and credits no second
\* reward: no two Heartbeat rows share a leaf hash, and a user's balance is the
\* reward times the number of distinct leaf hashes logged for the user
C25_ReplayProtected ==
    (NoneInFlight /\ faults = 0) =>
        /\ \A i, j \in 1..Len(heartbeats) :
              i # j => heartbeats[i].leaf_hash # heartbeats[j].leaf_hash
        /\ \A a \in Addrs :
              users[a].present =>
                 users[a].shard_balance = HEARTBEAT_REWARD *
                    Cardinality({heartbeats[i].leaf_hash : i \in HeartbeatsOf(a)})

\* The largest timestamp among the Heartbeat rows of a user
MaxHeartbeat(a) ==
    CHOOSE t \in {heartbeats[i].timestamp : i \in HeartbeatsOf(a)} :
        \A i \in HeartbeatsOf(a) : heartbeats[i].timestamp <= t

\* C26: last_heartbeat never decreases: after any sequence of accepted
\* heartbeats of a user, also with timestamps arriving out of order,
\* last_heartbeat is the largest timestamp among the user's Heartbeat rows
C26_LastHeartbeatIsMax ==
    (NoneInFlight /\ faults = 0) =>
        \A a \in Addrs :
            HeartbeatsOf(a) # {} => users[a].last_heartbeat = MaxHeartbeat(a)

C28_ReturnsOwnCredit ==
    faults = 0 =>
        \A p \in Procs :
            (reqs[p].kind = "heartbeat" /\ Accepted(p))
            => reqs[p].ret = reqs[p].prior + HEARTBEAT_REWARD

\* C29: a social action applied while the growth job runs is never lost: its
\* delta, for a receiver who owns a sharbor, was read by the run's growth
\* computation for that sharbor, or the run's final reset did not clear it
C29_DeltaNotLost ==
    \A q \in Procs :
        (/\ reqs[q].kind = "social" /\ reqs[q].updated /\ reqs[q].injob
         /\ \E i \in 1..Len(sharbors) : sharbors[i].owner_address = reqs[q].addr)
        => (reqs[q].seen \/ ~reqs[q].zeroed)

\* C30: while a waterFriend request for a friend address is in flight the
\* watering state of the address is 'busy', its Water button disabled, so at
\* most one water request per friend is in flight, for every sequence of
\* clicks, responses and reset-to-idle timers of earlier requests
C30_OneWaterInFlight ==
    \A f \in Addrs :
        inflight[f] > 0 => (watering[f] = "busy" /\ inflight[f] = 1)

====
